---- MODULE Spec2Model ----
(***************************************************************************)
(* A state-machine model of src/src/eventually.ts: the recursive           *)
(* retry / back-off / failure-policy engine `eventually`, its process-wide *)
(* defaults and the options objects it reads and writes.                   *)
(*                                                                         *)
(* One step of the model is what the JavaScript run-to-completion          *)
(* semantics executes between two suspension points of a call: the         *)
(* settling of the operation, of a back-off timer or of a fail handler,    *)
(* followed by all the synchronous code up to the next await.              *)
(***************************************************************************)
EXTENDS Integers, Sequences, FiniteSets, TLC

\* ------------------------------------------------------------------ bounds
MaxRetries == 2      \* largest `retries` value a caller or a configuration passes
MaxDelay == 1        \* largest back-off duration (ms) that is passed
MaxBackoffLen == 2   \* longest back-off array that is passed
MaxRounds == 3       \* rounds (entries of eventually) one invocation chain may make

\* ------------------------------------------------------- values of the code
\* JavaScript `undefined` for an optional field, and a present value.
Undef == << >>
Some(v) == << v >>
Get(o) == o[1]

\* enum ErrorHandlingStrategies
fail == 1
halt == 2
suppress == 3
retry == 4
ErrorHandlingStrategies == {fail, halt, suppress, retry}

\* backoff?: number[] | number
Scalar(d) == [isArray |-> FALSE, num |-> d, items |-> << >>]
Array(a) == [isArray |-> TRUE, num |-> 0, items |-> a]

\* What a promise rejects with.  The i-th invocation of the caller's
\* operation rejects with a value of its own, <<"op", i>>, the j-th
\* invocation of a redirect function with <<"redirect", j>>: an Error
\* object or a string (as in the repository's tests), or else with
\* undefined, which is one value whoever rejects with it.  The engine's own
\* error wraps the error whose message it embeds.
ErrorKinds == {"Error", "string", "undefined"}
NoError == [src |-> "none", n |-> 0, wraps |-> "none", is |-> "none"]
Rejection(src, i, kind) ==
    IF kind = "undefined"
    THEN [src |-> "undefined", n |-> 0, wraps |-> "none", is |-> "undefined"]
    ELSE [src |-> src, n |-> i, wraps |-> "none", is |-> kind]
OpError(i) == Rejection("op", i, "Error")
RedirectError(j) == Rejection("redirect", j, "Error")
HandlerError(k) == Rejection("handler", k, "Error")

\* Values a call resolves with.
NoValue == [v |-> "none", of |-> NoError]
Undefined == [v |-> "undefined", of |-> NoError]
OpValue == [v |-> "expected", of |-> NoError]
RedirectValue(e) == [v |-> "redirected", of |-> e]

\* What a fail handler resolved to: a strategy (a number) or an object; or
\* else it threw, or its promise rejected.
NoResult == [kind |-> "none", strategy |-> 0, object |-> Undef]
Thrown == [kind |-> "thrown", strategy |-> 0, object |-> Undef]
Strategy(n) == [kind |-> "strategy", strategy |-> n, object |-> Undef]
Object(o) == [kind |-> "object", strategy |-> 0, object |-> Some(o)]

\* The functions EventualFunction the engine runs: the caller's operation, or
\* the closure () => redirect(lastError) with the error it captured.
OriginalFunction == [kind |-> "orig", captured |-> NoError]
RedirectClosure(e) == [kind |-> "redirect", captured |-> e]

\* ------------------------------------------------------------- pure helpers
\* ensureArray
ensureArray(value) == IF value.isArray THEN value.items ELSE << value.num >>

\* Mutant of omit: the copy loses fail along with redirect.
omitDropsFail(obj) == [obj EXCEPT !.redirect = Undef, !.fail = Undef]

\* Mutant of omit: the copy keeps every property of the object.
omitKeepsEveryProperty(obj) == obj

\* omit(obj, "redirect")
omit(obj) == [obj EXCEPT !.redirect = Undef]

\* The initial values of the module-level `let` defaults.
InitialRetries == 0
InitialFailHandler == "defaultFailHandler"
InitialBackoff == << >>

\* const defaultOptions, built once when the module is loaded.
defaultOptions ==
    [retries |-> Some(InitialRetries),
     fail |-> Some(InitialFailHandler),
     backoff |-> Some(Array(InitialBackoff)),
     redirect |-> Undef]

DefaultKeys == {"retries", "fail", "backoff"}

\* resolveOptions: the contents of the object it returns.  With an object
\* passed, that object itself is filled in place and returned.
FillDefault(options, k) ==
    IF k \in DefaultKeys /\ options[k] = Undef THEN defaultOptions[k] ELSE options[k]

resolveOptions(options) ==
    IF options = Undef
    THEN defaultOptions
    ELSE [retries |-> FillDefault(Get(options), "retries"),
          fail |-> FillDefault(Get(options), "fail"),
          backoff |-> FillDefault(Get(options), "backoff"),
          redirect |-> FillDefault(Get(options), "redirect")]

\* What the default case of handleSimpleEventuallyResult throws.  The
\* template reads lastError.message and lastError.stack: with an Error
\* object the engine's error embeds its message; with a string both
\* properties are undefined and nothing of lastError is in the message;
\* with undefined the property access itself throws a TypeError.
UnhandledStrategyError(lastError) ==
    CASE lastError.is = "Error" ->
            [src |-> "engine", n |-> lastError.n, wraps |-> lastError.src,
             is |-> "Error"]
      [] lastError.is = "undefined" ->
            [src |-> "TypeError", n |-> 0, wraps |-> "none", is |-> "Error"]
      [] OTHER ->
            [src |-> "engine", n |-> 0, wraps |-> "nothing", is |-> "Error"]

\* ------------------------------------------------------------------- state
VARIABLES
    defaultRetries,      \* let defaultRetries
    defaultFailHandler,  \* let defaultFailHandler
    defaultBackoff,      \* let defaultBackoff
    callerOptions,       \* the options object the caller holds (Undef: none passed)
    callerOriginal,      \* that object as it was when the caller passed it
    call                 \* per top-level call: the frame of its invocation chain

vars == << defaultRetries, defaultFailHandler, defaultBackoff,
           callerOptions, callerOriginal, call >>

Calls == {1, 2}
Solo == {1}

EmptyOptions == [retries |-> Undef, fail |-> Undef, backoff |-> Undef, redirect |-> Undef]

IdleCall ==
    [pc |-> "idle",               \* idle, attempt, sleep, handler, resolved, rejected, halted
     func |-> OriginalFunction,   \* the function the current round runs
     ref |-> "none",              \* the object `options` refers to: caller, defaults, local
     local |-> EmptyOptions,      \* its contents when it is an object of this chain
     retries |-> 0,               \* tryDo: retries
     backoff |-> << >>,           \* tryDo: the private copy of backoff
     fallbackBackoff |-> 0,       \* tryDo: fallbackBackoff
     attempts |-> 0,              \* tryDo: attempts
     lastError |-> NoError,       \* lastError
     handler |-> "none",          \* the fail handler awaited
     inflight |-> [func |-> 0, sleep |-> 0, handler |-> 0],
                                  \* promises of the chain not yet settled
     own |-> TRUE,                \* tryDo's backoff is an array of its own
     hits |-> 0,                  \* invocations of the caller's operation so far
     rhits |-> 0,                 \* invocations of redirect functions so far
     fhits |-> 0,                 \* invocations of fail handlers so far
     value |-> NoValue,           \* what the returned promise resolved with
     error |-> NoError,           \* what the returned promise rejected with
     rounds |-> << >>]            \* history: one record per entry of eventually

\* The contents of the object the current round's `options` refers to.
Deref(s) ==
    IF s.ref = "caller" THEN Get(callerOptions)
    ELSE IF s.ref = "defaults" THEN defaultOptions
    ELSE s.local

Current(s) == s.rounds[Len(s.rounds)]

\* ------------------------------------------------------------------ tryDo
\* Mutant of fallbackBackoffOf: the fallback taken from the first entry of
\* the array, as in backoff[0] || 0.
fallbackBackoffFromFirst(backoff) ==
    IF Len(backoff) > 0 /\ backoff[1] # 0 THEN backoff[1] ELSE 0

\* const fallbackBackoff = backoff[backoff.length - 1] || 0
fallbackBackoffOf(backoff) ==
    IF Len(backoff) > 0 /\ backoff[Len(backoff)] # 0
    THEN backoff[Len(backoff)]
    ELSE 0

\* const backoffMs = backoff.shift() || fallbackBackoff
backoffMs(backoff, fallback) ==
    IF Len(backoff) > 0 /\ Head(backoff) # 0
    THEN Head(backoff)
    ELSE fallback

\* backoff after backoff.shift()
Shifted(backoff) == IF Len(backoff) > 0 THEN Tail(backoff) ELSE backoff

\* Mutant of LoopContinues: the increment made before the comparison, as
\* in while (++attempts < retries).
LoopContinuesPreIncrement(attempts, retries) == attempts + 1 < retries

\* Mutant of LoopContinues: the comparison turned round, as in
\* while (attempts++ > retries), so that the first failure ends the loop.
LoopContinuesInverted(attempts, retries) == attempts > retries

\* while (attempts++ < retries): the comparison, made on the value before
\* the increment.
LoopContinues(attempts, retries) == attempts < retries

\* return await func(): the function is invoked and the frame awaits it.
Invoke(s) ==
    [s EXCEPT !.pc = "attempt",
              !.inflight.func = @ + 1,
              !.hits = IF s.func.kind = "orig" THEN @ + 1 ELSE @,
              !.rhits = IF s.func.kind = "redirect" THEN @ + 1 ELSE @,
              !.rounds[Len(s.rounds)].invoked = @ + 1]

\* The error the invocation in flight rejects with, when it rejects.
InFlightError(s, kind) ==
    IF s.func.kind = "orig"
    THEN Rejection("op", s.hits, kind)
    ELSE Rejection("redirect", s.rhits, kind)

\* The value the invocation in flight resolves with, when it resolves.
InFlightValue(s) ==
    IF s.func.kind = "orig" THEN OpValue ELSE RedirectValue(s.func.captured)

\* Mutant of slice: no copy is taken, so that tryDo shifts the array it was
\* given, which for a round under the caller's object is the caller's.
sliceShares(s, backoff) ==
    [s EXCEPT !.backoff = backoff,
              !.own = ~ (/\ s.ref = "caller"
                         /\ Current(s).options.backoff = Some(Array(backoff)))]

\* backoff = backoff.slice(): tryDo works on a copy of the array.
slice(s, backoff) == [s EXCEPT !.backoff = backoff, !.own = TRUE]

\* Mutant of tryDo: the attempt counter and the copy of backoff are kept
\* from the round before, as if they were module state.
tryDoKeepsCounters(s, retries, backoff) ==
    Invoke([slice(s, IF Len(s.rounds) > 1 THEN s.backoff ELSE backoff)
               EXCEPT !.retries = retries,
                      !.fallbackBackoff = fallbackBackoffOf(backoff),
                      !.attempts = IF Len(s.rounds) > 1 THEN @ ELSE 0,
                      !.lastError = NoError])

\* tryDo up to its first await: the copy of backoff, the fallback, attempts
\* = 0, and the first invocation, which no delay precedes.
tryDo(s, retries, backoff) ==
    Invoke([slice(s, backoff)
               EXCEPT !.retries = retries,
                      !.fallbackBackoff = fallbackBackoffOf(backoff),
                      !.attempts = 0,
                      !.lastError = NoError])

\* ------------------------------------------------------------- eventually
\* const retries = options.retries || defaultRetries
EffectiveRetries(options) ==
    IF Get(options.retries) # 0 THEN Get(options.retries) ELSE defaultRetries

\* const backoff = options.backoff || defaultBackoff, then ensureArray(backoff)
EffectiveBackoff(options) ==
    IF Get(options.backoff).isArray \/ Get(options.backoff).num # 0
    THEN ensureArray(Get(options.backoff))
    ELSE ensureArray(Array(defaultBackoff))

\* The history record of a round that starts.
NewRound(func, via, given, options) ==
    [func |-> func.kind,            \* what the round runs: orig, redirect
     captured |-> func.captured,    \* the error a redirect closure captured
     via |-> via,                   \* call, redirect, handlerRedirect, handlerOptions, retry
     given |-> given,               \* the options as passed, before resolveOptions
     options |-> options,           \* the options after resolveOptions
     defaults |-> [retries |-> defaultRetries,
                   fail |-> defaultFailHandler,
                   backoff |-> defaultBackoff],  \* the defaults at the entry
     retries |-> EffectiveRetries(options),
     backoff |-> EffectiveBackoff(options),
     invoked |-> 0,                 \* invocations of func in the round
     end |-> "running",             \* running, succeeded, exhausted
     errors |-> << >>,              \* the errors of its failed attempts
     delays |-> << >>,              \* the delays awaited in the round
     handler |-> "none",            \* the fail handler the round invoked
     handled |-> 0,                 \* how many times it invoked one
     handlerArg |-> NoError,        \* with this error
     result |-> NoResult]           \* and what it resolved to

\* eventually(func, options) up to its first await.  `ref` says which object
\* `given` is: it is that object resolveOptions fills in place.
eventually(s, func, via, ref, given) ==
    LET options == resolveOptions(given)
    IN  tryDo([s EXCEPT !.func = func,
                        !.ref = ref,
                        !.local = IF ref = "local" THEN options ELSE EmptyOptions,
                        !.handler = "none",
                        !.rounds = Append(@, NewRound(func, via, given, options))],
              EffectiveRetries(options),
              EffectiveBackoff(options))

\* The promise eventually returned settles.
Resolve(s, v) == [s EXCEPT !.pc = "resolved", !.value = v]
Succeed(s, v) ==
    Resolve([s EXCEPT !.rounds[Len(s.rounds)].end = "succeeded",
                      !.inflight.func = @ - 1], v)
Reject(s, e) == [s EXCEPT !.pc = "rejected", !.error = e]

\* Lines 59-78, after tryDo threw lastError: redirect first, then fail.
FailurePolicy(r) ==
    LET s == [r EXCEPT !.rounds[Len(r.rounds)].end = "exhausted"]
        options == Deref(r)
    IN  IF options.redirect # Undef
        THEN eventually(s, RedirectClosure(s.lastError), "redirect", "local",
                        Some(omit(options)))
        ELSE IF options.fail = Undef
        THEN Reject(s, s.lastError)
        ELSE [s EXCEPT !.pc = "handler",
                       !.handler = Get(options.fail),
                       !.inflight.handler = @ + 1,
                       !.fhits = @ + 1,
                       !.rounds[Len(s.rounds)].handler = Get(options.fail),
                       !.rounds[Len(s.rounds)].handled = @ + 1,
                       !.rounds[Len(s.rounds)].handlerArg = s.lastError]

\* Mutant of handleComplexEventualFailResult: the redirect of the returned
\* object is ignored and the original function is run under the object.
handleComplexIgnoresRedirect(s, options) ==
    eventually(s, s.func, "handlerOptions", "local", Some(options))

\* handleComplexEventualFailResult(options, originalFunction, lastError)
handleComplexEventualFailResult(s, options) ==
    IF options.redirect # Undef
    THEN eventually(s, RedirectClosure(s.lastError), "handlerRedirect", "local",
                    Some(omit(options)))
    ELSE eventually(s, s.func, "handlerOptions", "local", Some(options))

\* Mutant of handleSimpleEventuallyResult: case suppress falls through to
\* the default branch.
handleSimpleSuppressFallsThrough(s, strategy) ==
    CASE strategy = fail -> Reject(s, s.lastError)
      [] strategy = retry -> eventually(s, s.func, "retry", s.ref, Some(Deref(s)))
      [] strategy = halt -> [s EXCEPT !.pc = "halted"]
      [] OTHER -> Reject(s, UnhandledStrategyError(s.lastError))

\* Mutant of handleSimpleEventuallyResult: case halt returns like suppress
\* instead of a promise that never settles.
handleSimpleHaltReturns(s, strategy) ==
    CASE strategy = fail -> Reject(s, s.lastError)
      [] strategy = retry -> eventually(s, s.func, "retry", s.ref, Some(Deref(s)))
      [] strategy = halt -> Resolve(s, Undefined)
      [] strategy = suppress -> Resolve(s, Undefined)
      [] OTHER -> Reject(s, UnhandledStrategyError(s.lastError))

\* Mutant of handleSimpleEventuallyResult: case retry runs the original
\* operation again, whatever function the round was running.
handleSimpleRetryRunsOriginal(s, strategy) ==
    CASE strategy = fail -> Reject(s, s.lastError)
      [] strategy = retry ->
            eventually(s, OriginalFunction, "retry", s.ref, Some(Deref(s)))
      [] strategy = halt -> [s EXCEPT !.pc = "halted"]
      [] strategy = suppress -> Resolve(s, Undefined)
      [] OTHER -> Reject(s, UnhandledStrategyError(s.lastError))

\* Mutant of handleSimpleEventuallyResult: case suppress returns the promise
\* that never settles, like halt.
handleSimpleSuppressNeverSettles(s, strategy) ==
    CASE strategy = fail -> Reject(s, s.lastError)
      [] strategy = retry -> eventually(s, s.func, "retry", s.ref, Some(Deref(s)))
      [] strategy = halt -> [s EXCEPT !.pc = "halted"]
      [] strategy = suppress -> [s EXCEPT !.pc = "halted"]
      [] OTHER -> Reject(s, UnhandledStrategyError(s.lastError))

\* handleSimpleEventuallyResult(strategy, func, options, lastError)
handleSimpleEventuallyResult(s, strategy) ==
    CASE strategy = fail -> Reject(s, s.lastError)
      [] strategy = retry -> eventually(s, s.func, "retry", s.ref, Some(Deref(s)))
      [] strategy = halt -> [s EXCEPT !.pc = "halted"]
      [] strategy = suppress -> Resolve(s, Undefined)
      [] OTHER -> Reject(s, UnhandledStrategyError(s.lastError))

\* Lines 78-87: what eventually does with the handler's result.
HandleResult(s, result) ==
    LET t == [s EXCEPT !.rounds[Len(s.rounds)].result = result,
                       !.inflight.handler = @ - 1]
    IN  IF result.kind = "object"
        THEN handleComplexEventualFailResult(t, Get(result.object))
        ELSE handleSimpleEventuallyResult(t, result.strategy)

\* Line 78, await fail(lastError), when the handler throws or its promise
\* rejects: the await throws inside the async function eventually, whose
\* promise rejects with the handler's error.
HandlerThrew(s) ==
    Reject([s EXCEPT !.rounds[Len(s.rounds)].result = Thrown,
                     !.inflight.handler = @ - 1],
           HandlerError(s.fhits))

\* Whether a step enters eventually again.
EntersRound(s, t) == Len(t.rounds) > Len(s.rounds)

\* ----------------------------------------------------------------- inputs
\* Arrays of at most MaxBackoffLen durations in 0..MaxDelay.
BackoffArrays == UNION { [1..n -> 0..MaxDelay] : n \in 0..MaxBackoffLen }

\* The fail handlers by identity: the library's initial default, the one the
\* caller put in options, the one passed to configureDefaults, and the one
\* inside an object a handler returned.  The initial default resolves to
\* fail; what the others resolve to is the environment's choice.
UserHandlers == {"optionsFail", "configuredFail", "nestedFail"}

OptionsOver(R, B, F, D) ==
    { [retries |-> r, fail |-> f, backoff |-> b, redirect |-> d] :
        r \in R, b \in B, f \in F, d \in D }

\* Options objects a caller passes.
RetriesInputs == {Undef} \cup { Some(r) : r \in 0..MaxRetries }
BackoffInputs ==
    {Undef} \cup { Some(Scalar(d)) : d \in 0..MaxDelay }
            \cup { Some(Array(a)) : a \in BackoffArrays }

\* Objects a fail handler returns.
ReturnedObjects ==
    { [retries |-> Undef, fail |-> Undef, backoff |-> Undef, redirect |-> Undef],
      [retries |-> Some(0), fail |-> Some("nestedFail"), backoff |-> Undef,
       redirect |-> Undef],
      [retries |-> Some(1), fail |-> Some("nestedFail"),
       backoff |-> Some(Array(<< MaxDelay >>)), redirect |-> Undef],
      [retries |-> Undef, fail |-> Some("nestedFail"), backoff |-> Undef,
       redirect |-> Some("redirect")] }

\* What a fail handler may resolve to: the four strategies, a value outside
\* the enumeration, or an options object.
HandlerResults ==
    { Strategy(n) : n \in ErrorHandlingStrategies \cup {retry + 1} }
    \cup { Object(o) : o \in ReturnedObjects }

ResultsOf(handler, Results) ==
    IF handler = InitialFailHandler THEN { Strategy(fail) } ELSE Results

\* ---------------------------------------------------------------- actions
Init ==
    /\ defaultRetries = InitialRetries
    /\ defaultFailHandler = InitialFailHandler
    /\ defaultBackoff = InitialBackoff
    /\ callerOptions = Undef
    /\ callerOriginal = Undef
    /\ call = [c \in Calls |-> IdleCall]

\* configureDefaults(opts), at any moment between two steps of the calls.
configureDefaults(opts) ==
    /\ defaultRetries' =
          IF opts.retries # Undef THEN Get(opts.retries) ELSE defaultRetries
    /\ defaultFailHandler' =
          IF opts.fail # Undef THEN Get(opts.fail) ELSE defaultFailHandler
    /\ defaultBackoff' =
          IF opts.backoff # Undef THEN ensureArray(Get(opts.backoff)) ELSE defaultBackoff
    /\ UNCHANGED << callerOptions, callerOriginal, call >>

\* eventually(func) or eventually(func, options) by the caller: a top-level
\* call, run up to the first invocation of func.  The caller holds one
\* options object, which this call passes.
Call(c, options) ==
    /\ call[c].pc = "idle"
    /\ callerOptions = Undef
    /\ callerOriginal' = options
    /\ callerOptions' = IF options = Undef THEN Undef ELSE Some(resolveOptions(options))
    /\ call' = [call EXCEPT ![c] =
                  eventually(call[c], OriginalFunction, "call",
                             IF options = Undef THEN "defaults" ELSE "caller",
                             options)]
    /\ UNCHANGED << defaultRetries, defaultFailHandler, defaultBackoff >>

\* The caller's object after a step from frame s to frame t: the array of
\* its backoff is the one tryDo has shifted in the step, when tryDo works
\* on that array itself and not on a copy.
WrittenThrough(object, s, t) ==
    IF t.own \/ object = Undef \/ t.backoff = s.backoff
    THEN object
    ELSE Some([Get(object) EXCEPT !.backoff = Some(Array(t.backoff))])

\* The step of frame c to frame t: a round it enters stays within MaxRounds,
\* and entering one with the caller's object fills that object.
Step(c, t) ==
    /\ EntersRound(call[c], t) => Len(call[c].rounds) < MaxRounds
    /\ call' = [call EXCEPT ![c] = t]
    /\ callerOptions' =
          WrittenThrough(IF EntersRound(call[c], t) /\ t.ref = "caller"
                         THEN Some(resolveOptions(callerOptions))
                         ELSE callerOptions, call[c], t)
    /\ UNCHANGED << defaultRetries, defaultFailHandler, defaultBackoff,
                    callerOriginal >>

\* The invocation in flight resolves: tryDo returns, eventually returns.
OpResolves(c) ==
    /\ call[c].pc = "attempt"
    /\ Step(c, Succeed(call[c], InFlightValue(call[c])))

\* Mutant of Failed: only the first error of the round is kept, as in
\* lastError = lastError || e.
FailedKeepsFirstError(s, kind) ==
    [s EXCEPT !.lastError = IF @ = NoError THEN InFlightError(s, kind) ELSE @,
              !.attempts = @ + 1,
              !.inflight.func = @ - 1,
              !.rounds[Len(s.rounds)].errors = Append(@, InFlightError(s, kind))]

\* The failed attempt, recorded: lastError = e, then attempts++.
Failed(s, kind) ==
    [s EXCEPT !.lastError = InFlightError(s, kind),
              !.attempts = @ + 1,
              !.inflight.func = @ - 1,
              !.rounds[Len(s.rounds)].errors = Append(@, InFlightError(s, kind))]

\* The array tryDo shifts: its own copy, or else the array of the caller's
\* object.
BackoffOf(s) ==
    IF s.own THEN s.backoff ELSE Get(Get(callerOptions).backoff).items

\* sleep(backoffMs) is called with the next delay, taken off the copy of
\* backoff: the timer is started.
StartSleep(s) ==
    [s EXCEPT !.backoff = Shifted(BackoffOf(s)),
              !.inflight.sleep = @ + 1,
              !.rounds[Len(s.rounds)].delays =
                  Append(@, backoffMs(BackoffOf(s), s.fallbackBackoff))]

\* Mutant of Backoff: sleep(backoffMs) is called but not awaited, and the
\* next attempt starts at once.
BackoffNotAwaited(s) == Invoke(StartSleep(s))

\* await sleep(backoffMs): the frame is suspended until the timer fires.
Backoff(s) == [StartSleep(s) EXCEPT !.pc = "sleep"]

\* The timer of the delay awaited has fired.
Elapsed(s) == [s EXCEPT !.inflight.sleep = @ - 1]

\* The invocation in flight rejects and the loop goes round: the next delay
\* is taken off the copy of backoff and awaited.
OpRejectsRetry(c, kind) ==
    /\ call[c].pc = "attempt"
    /\ LoopContinues(call[c].attempts, call[c].retries)
    /\ Step(c, Backoff(Failed(call[c], kind)))

\* The delay has elapsed: the next attempt starts.
Wake(c) ==
    /\ call[c].pc = "sleep"
    /\ Step(c, Invoke(Elapsed(call[c])))

\* The invocation in flight rejects and the loop ends: tryDo throws
\* lastError and eventually applies the failure policy.
OpRejectsExhausted(c, kind) ==
    /\ call[c].pc = "attempt"
    /\ ~ LoopContinues(call[c].attempts, call[c].retries)
    /\ Step(c, FailurePolicy(Failed(call[c], kind)))

\* The invocation in flight rejects, the loop ends, and the fail handler
\* the failure policy invokes throws before it returns a promise: the call
\* is rejected in the same turn.  The library's default handler does not
\* throw.
OpRejectsHandlerThrows(c, kind) ==
    LET t == FailurePolicy(Failed(call[c], kind))
    IN  /\ call[c].pc = "attempt"
        /\ ~ LoopContinues(call[c].attempts, call[c].retries)
        /\ t.pc = "handler"
        /\ t.handler \in UserHandlers
        /\ Step(c, HandlerThrew(t))

\* The fail handler awaited resolves to `result`.
HandlerSettles(c, result) ==
    /\ call[c].pc = "handler"
    /\ Step(c, HandleResult(call[c], result))

\* The promise of the fail handler awaited rejects.  The library's default
\* handler resolves.
HandlerRejects(c) ==
    /\ call[c].pc = "handler"
    /\ call[c].handler \in UserHandlers
    /\ Step(c, HandlerThrew(call[c]))

\* --------------------------------------------------------- specifications
NextOver(Configs, Options, Results, Kinds) ==
    \/ \E opts \in Configs : configureDefaults(opts)
    \/ \E c \in Solo :
         \/ \E options \in Options : Call(c, options)
         \/ OpResolves(c)
         \/ \E kind \in Kinds : OpRejectsRetry(c, kind)
         \/ Wake(c)
         \/ \E kind \in Kinds : OpRejectsExhausted(c, kind)
         \/ \E kind \in Kinds : OpRejectsHandlerThrows(c, kind)
         \/ \E result \in ResultsOf(call[c].handler, Results) : HandlerSettles(c, result)
         \/ HandlerRejects(c)

\* The failure policy: every strategy and every returned object, over
\* options with or without retries, backoff, fail and redirect.
PolicyConfigs ==
    OptionsOver({Some(MaxRetries)}, {Some(Array(<< MaxDelay >>))},
                {Some("configuredFail")}, {Undef})
PolicyOptions ==
    {Undef} \cup
    { Some(o) : o \in OptionsOver({Undef} \cup { Some(r) : r \in 0..1 },
                                  {Undef, Some(Array(<< MaxDelay, 0 >>))},
                                  {Undef, Some("optionsFail")},
                                  {Undef, Some("redirect")}) }

Next == NextOver(PolicyConfigs, PolicyOptions, HandlerResults, {"Error"})

Spec == Init /\ [][Next]_vars

\* The retry engine: every retries value and every backoff a caller may
\* pass, under handlers that fail or retry.
RetryConfigs ==
    OptionsOver({Some(MaxRetries)}, {Some(Array(<< MaxDelay >>))}, {Undef}, {Undef})
RetryOptions ==
    {Undef} \cup
    { Some(o) : o \in OptionsOver(RetriesInputs, BackoffInputs,
                                  {Undef, Some("optionsFail")}, {Undef}) }
RetryResults == { Strategy(fail), Strategy(retry) }

NextRetry == NextOver(RetryConfigs, RetryOptions, RetryResults, {"Error"})

SpecRetry == Init /\ [][NextRetry]_vars

\* ------------------------------------------------------ claims: vocabulary
Rounds(c) == call[c].rounds
Last(seq) == seq[Len(seq)]

\* The round the caller's own call started, with `retries` passed in options.
PassedRetries(rd) ==
    rd.via = "call" /\ rd.given # Undef /\ Get(rd.given).retries # Undef
RetriesPassed(rd) == Get(Get(rd.given).retries)

\* ---------------------------------------------------------------------- C1
\* C1: with retries = r >= 0 passed in the caller's options, a round whose
\* every attempt failed has invoked the operation exactly r + 1 times when
\* its exhaustion is reported to the failure policy.
C1_ExhaustedAfterRetriesPlusOne ==
    \A c \in Calls : \A i \in 1..Len(Rounds(c)) :
        LET rd == Rounds(c)[i]
        IN  (PassedRetries(rd) /\ rd.end = "exhausted")
                => rd.invoked = RetriesPassed(rd) + 1

\* ---------------------------------------------------------------------- C2
\* C2: with retries = r passed, the round is not given up while at most r
\* attempts have failed; and when the operation fails k <= r times and then
\* succeeds, the call resolves with the operation's value after exactly
\* k + 1 invocations and exactly k delays, and neither a fail handler nor a
\* redirect function is invoked.
C2_SucceedsWithinRetries ==
    \A c \in Calls : \A i \in 1..Len(Rounds(c)) :
        LET rd == Rounds(c)[i]
            k == Len(rd.errors)
        IN  PassedRetries(rd) =>
              /\ rd.end = "exhausted" => k > RetriesPassed(rd)
              /\ (rd.end = "succeeded" /\ k <= RetriesPassed(rd)) =>
                    /\ call[c].pc = "resolved"
                    /\ call[c].value = OpValue
                    /\ call[c].error = NoError
                    /\ call[c].hits = k + 1
                    /\ rd.invoked = k + 1
                    /\ Len(rd.delays) = k
                    /\ rd.handler = "none"
                    /\ call[c].rhits = 0
                    /\ Len(Rounds(c)) = 1

\* C2 witness: retries 2 passed, two failed attempts, then success.
C2_Witness ==
    \E c \in Calls :
        /\ Len(Rounds(c)) = 1
        /\ PassedRetries(Rounds(c)[1])
        /\ RetriesPassed(Rounds(c)[1]) = 2
        /\ Len(Rounds(c)[1].errors) = 2
        /\ Rounds(c)[1].end = "succeeded"
        /\ call[c].pc = "resolved"

\* ---------------------------------------------------------------------- C3
\* The delay the claim states for the i-th retry under the array d: d[i]
\* while the array lasts, its last element afterwards, 0 for an empty one.
ClaimedDelay(d, i) ==
    IF Len(d) = 0 THEN 0 ELSE IF i <= Len(d) THEN d[i] ELSE d[Len(d)]

\* C3: with a backoff array [d0..dn] (zero entries included) and r > n
\* retries passed, the delays an always-failing operation's round awaits
\* are d0, d1, ..., dn, dn, ...: all 0 for an empty array.
C3_DelaysFollowBackoff ==
    \A c \in Calls : \A i \in 1..Len(Rounds(c)) :
        LET rd == Rounds(c)[i]
            b == Get(rd.given).backoff
        IN  (/\ PassedRetries(rd)
             /\ b # Undef
             /\ Get(b).isArray
             /\ RetriesPassed(rd) >= Len(Get(b).items)
             /\ rd.end = "exhausted")
            => \A j \in 1..Len(rd.delays) :
                   rd.delays[j] = ClaimedDelay(Get(b).items, j)

\* ---------------------------------------------------------------------- C4
\* No fail handler is configured for the round: the options passed carry
\* none and none was given to configureDefaults.
NoHandlerConfigured(rd) ==
    /\ rd.given = Undef \/ Get(rd.given).fail = Undef
    /\ rd.defaults.fail = InitialFailHandler

\* The error of the last invocation the call has made of the round's
\* function, a value of the kind that invocation rejected with.
LastAttemptError(c, rd) ==
    IF rd.func = "orig"
    THEN Rejection("op", call[c].hits, Last(rd.errors).is)
    ELSE Rejection("redirect", call[c].rhits, Last(rd.errors).is)

\* C4: when all attempts of a round fail and the failure policy comes to
\* the fail handler (the round's options carry no redirect), and no handler
\* is configured or the handler resolves to the fail strategy, the call
\* rejects with the error of the round's last attempt itself: no other
\* round follows, and nothing but the library's default handler is awaited
\* before the rejection.
C4_RejectsWithLastError ==
    \A c \in Calls : \A i \in 1..Len(Rounds(c)) :
        LET rd == Rounds(c)[i]
        IN  (/\ rd.end = "exhausted"
             /\ rd.options.redirect = Undef
             /\ NoHandlerConfigured(rd) \/ rd.result = Strategy(fail))
            => /\ i = Len(Rounds(c))
               /\ call[c].pc \in {"handler", "rejected"}
               /\ call[c].pc = "handler" =>
                     /\ call[c].handler = InitialFailHandler
                     /\ rd.result = NoResult
               /\ call[c].pc = "rejected" =>
                     /\ call[c].error = Last(rd.errors)
                     /\ call[c].error = LastAttemptError(c, rd)
                     /\ call[c].value = NoValue

\* C4 witness: the caller's handler resolved to fail after two failed
\* attempts, and the call is rejected.
C4_Witness ==
    \E c \in Calls :
        /\ call[c].pc = "rejected"
        /\ Len(Rounds(c)) = 1
        /\ Rounds(c)[1].handler = "optionsFail"
        /\ Rounds(c)[1].result = Strategy(fail)
        /\ Len(Rounds(c)[1].errors) = 2

\* ---------------------------------------------------------------------- C5
\* C5: when the fail handler of an exhausted round resolves to suppress, the
\* call resolves with undefined, it does not reject, and the operation is
\* not invoked again: the round is the chain's last and every invocation it
\* made is one of its failed attempts.
C5_SuppressResolvesUndefined ==
    \A c \in Calls : \A i \in 1..Len(Rounds(c)) :
        LET rd == Rounds(c)[i]
        IN  rd.result = Strategy(suppress)
            => /\ i = Len(Rounds(c))
               /\ rd.end = "exhausted"
               /\ call[c].pc = "resolved"
               /\ call[c].value = Undefined
               /\ call[c].error = NoError
               /\ rd.invoked = Len(rd.errors)

\* C5 witness: the caller's handler resolved to suppress and the call is
\* resolved.
C5_Witness ==
    \E c \in Calls :
        /\ call[c].pc = "resolved"
        /\ Len(Rounds(c)) = 1
        /\ Rounds(c)[1].handler = "optionsFail"
        /\ Rounds(c)[1].result = Strategy(suppress)

\* ---------------------------------------------------------------------- C6
\* The call's handler has resolved to halt.
Halted(c) ==
    \E i \in 1..Len(Rounds(c)) : Rounds(c)[i].result = Strategy(halt)

\* C6: when the fail handler of an exhausted round resolves to halt, the
\* promise never settles: in every state from then on it is neither
\* resolved nor rejected, the halted round stays the chain's last, no
\* invocation is in flight, and no step changes the call's frame.
C6_HaltNeverSettles ==
    /\ [](\A c \in Calls : \A i \in 1..Len(Rounds(c)) :
            LET rd == Rounds(c)[i]
            IN  rd.result = Strategy(halt)
                => /\ i = Len(Rounds(c))
                   /\ rd.end = "exhausted"
                   /\ call[c].pc = "halted"
                   /\ call[c].value = NoValue
                   /\ call[c].error = NoError
                   /\ rd.invoked = Len(rd.errors))
    /\ [][\A c \in Calls : Halted(c) => call'[c] = call[c]]_vars

\* C6 witness: the caller's handler resolved to halt, and a step has been
\* taken since: configureDefaults has changed the defaults the halted round
\* was entered with.
C6_Witness ==
    \E c \in Calls :
        /\ call[c].pc = "halted"
        /\ Rounds(c)[Len(Rounds(c))].handler = "optionsFail"
        /\ Rounds(c)[Len(Rounds(c))].result = Strategy(halt)
        /\ Rounds(c)[Len(Rounds(c))].defaults.retries # defaultRetries

\* ---------------------------------------------------------------------- C7
\* The rounds of the call in which a fail handler was invoked.
HandlerInvocations(c) ==
    Cardinality({ i \in 1..Len(Rounds(c)) : Rounds(c)[i].handler # "none" })

\* The caller passed retries: 0, a fail handler and no redirect, and the
\* handler has resolved to retry every time it was invoked.
RetriesZeroAlwaysRetry(c) ==
    /\ Len(Rounds(c)) >= 1
    /\ Rounds(c)[1].given # Undef
    /\ Get(Rounds(c)[1].given).retries = Some(0)
    /\ Get(Rounds(c)[1].given).fail = Some("optionsFail")
    /\ Get(Rounds(c)[1].given).redirect = Undef
    /\ \A i \in 1..Len(Rounds(c)) :
          Rounds(c)[i].result \in {NoResult, Strategy(retry)}

\* C7: with retries: 0 and a fail handler that always resolves to retry,
\* every failed invocation is followed by one handler invocation and one
\* re-entry with the same operation and the same options, so a call that
\* resolves has m + 1 invocations and m handler invocations behind it and
\* the operation's value; the call does not settle otherwise.
C7_RetryStrategyReruns ==
    \A c \in Calls :
        RetriesZeroAlwaysRetry(c)
        => /\ call[c].pc \notin {"rejected", "halted"}
           /\ \A i \in 2..Len(Rounds(c)) :
                 /\ Rounds(c)[i].via = "retry"
                 /\ Rounds(c)[i].func = "orig"
                 /\ Rounds(c)[i].options = Rounds(c)[1].options
           /\ call[c].pc = "resolved" =>
                 /\ call[c].value = OpValue
                 /\ HandlerInvocations(c) = call[c].hits - 1

\* ---------------------------------------------------------------------- C8
\* The round was entered by taking a redirect: directly from the options of
\* the exhausted round, or from the object its fail handler returned.
TookRedirect(rd) == rd.via \in {"redirect", "handlerRedirect"}

\* C8: an exhausted round whose options carry redirect, and one whose fail
\* handler returns an object carrying redirect, are followed alike by a
\* round that runs redirect(lastError) with the last error of the exhausted
\* round; and when the redirect function succeeds the call resolves with
\* the value of redirect(lastError).
C8_RedirectValueReturned ==
    \A c \in Calls : \A i \in 1..Len(Rounds(c)) :
        LET rd == Rounds(c)[i]
        IN  /\ (i < Len(Rounds(c)) /\ rd.options.redirect # Undef)
                 => Rounds(c)[i + 1].via = "redirect"
            /\ (/\ i < Len(Rounds(c))
                /\ rd.result.kind = "object"
                /\ Get(rd.result.object).redirect # Undef)
                 => Rounds(c)[i + 1].via = "handlerRedirect"
            /\ TookRedirect(rd) =>
                 /\ i > 1
                 /\ rd.func = "redirect"
                 /\ Rounds(c)[i - 1].end = "exhausted"
                 /\ rd.captured = Last(Rounds(c)[i - 1].errors)
                 /\ rd.options.redirect = Undef
            /\ (rd.func = "redirect" /\ rd.end = "succeeded") =>
                 /\ i = Len(Rounds(c))
                 /\ call[c].pc = "resolved"
                 /\ call[c].value = RedirectValue(rd.captured)
                 /\ call[c].error = NoError

\* C8 witness: a chain that took the redirect of the caller's options,
\* whose redirect function failed, and that then took the redirect of the
\* object the fail handler returned and resolved with its value.
C8_Witness ==
    \E c \in Calls :
        /\ Len(Rounds(c)) = 3
        /\ Rounds(c)[2].via = "redirect"
        /\ Rounds(c)[3].via = "handlerRedirect"
        /\ Rounds(c)[3].end = "succeeded"
        /\ call[c].pc = "resolved"
        /\ call[c].value = RedirectValue(RedirectError(1))

\* ---------------------------------------------------------------------- C9
\* C9: when the fail handler returns an options object without redirect,
\* the same function is re-run under that object as under a top-level
\* call: the round uses the object's own retries, backoff and fail, a field
\* the object omits comes from the process-wide defaults, and when the
\* object's handler resolves to fail the call rejects with the last error
\* of that round.
C9_ReturnedOptionsRerun ==
    \A c \in Calls : \A i \in 2..Len(Rounds(c)) :
        LET rd == Rounds(c)[i]
            obj == Get(Rounds(c)[i - 1].result.object)
        IN  rd.via = "handlerOptions"
            => /\ rd.func = Rounds(c)[i - 1].func
               /\ rd.given = Some(obj)
               /\ rd.retries = IF obj.retries # Undef
                               THEN Get(obj.retries)
                               ELSE rd.defaults.retries
               /\ rd.backoff = IF obj.backoff # Undef
                               THEN ensureArray(Get(obj.backoff))
                               ELSE rd.defaults.backoff
               /\ rd.options.fail = IF obj.fail # Undef
                                    THEN obj.fail
                                    ELSE Some(rd.defaults.fail)
               /\ rd.result = Strategy(fail) =>
                     /\ call[c].pc = "rejected"
                     /\ call[c].error = Last(rd.errors)

\* --------------------------------------------------------------------- C10
\* The options passed to the round omit field k.
Omits(rd, k) == rd.given = Undef \/ Get(rd.given)[k] = Undef

\* C10: a call of eventually that omits options, or one of retries, backoff
\* and fail, runs with the value configureDefaults set last before the call
\* for each omitted field (initially 0, the always-fail handler, []).
C10_OmittedFieldsFromLatestDefaults ==
    \A c \in Calls : \A i \in 1..Len(Rounds(c)) :
        LET rd == Rounds(c)[i]
        IN  rd.via = "call"
            => /\ Omits(rd, "retries") => rd.retries = rd.defaults.retries
               /\ Omits(rd, "backoff") => rd.backoff = rd.defaults.backoff
               /\ Omits(rd, "fail") => rd.options.fail = Some(rd.defaults.fail)

\* --------------------------------------------------------------------- C11
\* The round the caller's own call started, with options passed.
CallerRound(rd) == rd.via = "call" /\ rd.given # Undef

\* C11: a field the caller supplied in the options is the value the round
\* runs with: a supplied retries (0 included) is the retry budget of the
\* round, a supplied backoff array (the empty one included) is the schedule
\* tryDo is given, every delay awaited under a supplied scalar backoff d
\* (0 included) is d, a supplied fail is the round's handler; a configured
\* default never takes the place of a supplied value.
C11_SuppliedFieldsUsed ==
    \A c \in Calls : \A i \in 1..Len(Rounds(c)) :
        LET rd == Rounds(c)[i]
            given == Get(rd.given)
        IN  CallerRound(rd) =>
              /\ given.retries # Undef => rd.retries = Get(given.retries)
              /\ given.backoff # Undef =>
                     IF Get(given.backoff).isArray
                     THEN rd.backoff = Get(given.backoff).items
                     ELSE \A j \in 1..Len(rd.delays) :
                              rd.delays[j] = Get(given.backoff).num
              /\ given.fail # Undef => rd.options.fail = given.fail

\* --------------------------------------------------------------------- C12
\* C12: eventually never changes the options object the caller passed: at
\* every moment of the call the object holds, field for field, what it held
\* when it was passed.
C12_CallerOptionsUntouched ==
    callerOriginal # Undef => callerOptions = callerOriginal

\* --------------------------------------------------------------------- C13
\* The handler of the round resolved to a non-object value that is none of
\* the four strategies.
UnknownStrategy(rd) ==
    rd.result.kind = "strategy" /\ rd.result.strategy \notin ErrorHandlingStrategies

\* Operations that reject with an Error, with a string (as the
\* repository's tests do) or with undefined, under a fail handler that
\* resolves to fail, to retry or to the value after retry.
KindsConfigs == OptionsOver({Some(1)}, {Undef}, {Undef}, {Undef})
KindsOptions ==
    { Some(o) : o \in OptionsOver({Some(0), Some(1)},
                                  {Undef, Some(Array(<< MaxDelay >>))},
                                  {Some("optionsFail")}, {Undef}) }
KindsResults == { Strategy(fail), Strategy(retry), Strategy(retry + 1) }

NextKinds == NextOver(KindsConfigs, KindsOptions, KindsResults, ErrorKinds)

SpecKinds == Init /\ [][NextKinds]_vars

\* C13: when the fail handler resolves to a non-object value outside the
\* enumeration, the call rejects with an error raised inside the engine: it
\* is not the operation's error, it embeds the message of the round's last
\* error, and the operation is not invoked again (the round is the chain's
\* last and every invocation it made is one of its failed attempts).
C13_UnknownStrategyRejects ==
    \A c \in Calls : \A i \in 1..Len(Rounds(c)) :
        LET rd == Rounds(c)[i]
            last == Last(rd.errors)
        IN  UnknownStrategy(rd) =>
              /\ i = Len(Rounds(c))
              /\ call[c].pc = "rejected"
              /\ call[c].value = NoValue
              /\ call[c].error.src \in {"engine", "TypeError"}
              /\ call[c].error # last
              /\ call[c].error.wraps = last.src
              /\ call[c].error.n = last.n
              /\ last = LastAttemptError(c, rd)
              /\ rd.invoked = Len(rd.errors)
              /\ call[c].inflight.func = 0

\* --------------------------------------------------------------------- C14
\* backoff after n calls of backoff.shift()
ShiftedBy(backoff, n) ==
    IF n >= Len(backoff) THEN << >> ELSE SubSeq(backoff, n + 1, Len(backoff))

\* The delay tryDo awaits before its (j + 1)-th attempt when it is given the
\* array backoff: the head of the copy after j - 1 shifts, or the fallback.
DelayAwaited(backoff, j) ==
    backoffMs(ShiftedBy(backoff, j - 1), fallbackBackoffOf(backoff))

\* C14: a scalar backoff d is the one-element array [d]: for every d >= 0,
\* every retries and every configuration of the defaults, the delays a
\* round awaits under backoff: d are the delays tryDo awaits under [d], and
\* a round under backoff: [d] awaits those.
C14_ScalarIsOneElementArray ==
    \A c \in Calls : \A i \in 1..Len(Rounds(c)) :
        LET rd == Rounds(c)[i]
            b == Get(Get(rd.given).backoff)
        IN  (/\ CallerRound(rd)
             /\ Get(rd.given).backoff # Undef
             /\ ~b.isArray \/ Len(b.items) = 1)
            => \A j \in 1..Len(rd.delays) :
                   rd.delays[j] =
                       DelayAwaited(IF b.isArray THEN b.items ELSE << b.num >>, j)

\* --------------------------------------------------------------------- C15
\* The promises of the chain of call c that are created and not settled.
InFlightCount(c) ==
    call[c].inflight.func + call[c].inflight.sleep + call[c].inflight.handler

\* C15: at most one of an attempt, a delay, a fail-handler call and a
\* redirect call is in flight in one call's chain, and it is the one the
\* chain is suspended on; the attempts of a round never overlap (a round has
\* at most one invocation that has not failed), and while an attempt is in
\* flight every earlier attempt of the round has settled and the delay
\* after each has been requested and has elapsed.
C15_OneInFlight ==
    \A c \in Calls :
        LET s == call[c]
        IN  /\ InFlightCount(c) <= 1
            /\ s.inflight.func = 1 <=> s.pc = "attempt"
            /\ s.inflight.sleep = 1 <=> s.pc = "sleep"
            /\ s.inflight.handler = 1 <=> s.pc = "handler"
            /\ \A i \in 1..Len(s.rounds) :
                 LET rd == s.rounds[i]
                 IN  /\ rd.invoked - Len(rd.errors) \in {0, 1}
                     /\ rd.invoked - Len(rd.errors) = 1 =>
                            /\ rd.end = "succeeded" \/ s.pc = "attempt"
                            /\ Len(rd.delays) = Len(rd.errors)
                            /\ s.inflight.sleep = 0

\* C15 witness: in the round of a redirect function, after an attempt
\* failed and its delay elapsed and the second attempt failed, the fail
\* handler is the one thing in flight.
C15_Witness ==
    \E c \in Calls :
        /\ Len(Rounds(c)) = 2
        /\ Rounds(c)[2].via = "redirect"
        /\ Len(Rounds(c)[2].delays) = 1
        /\ Len(Rounds(c)[2].errors) = 2
        /\ call[c].pc = "handler"
        /\ call[c].inflight = [func |-> 0, sleep |-> 0, handler |-> 1]

\* --------------------------------------------------------------------- C16
\* The README's second example: retries: 5 with backoff: [50, 250, 1000].
ReadmeRetries == 5
ReadmeBackoff == << 50, 250, 1000 >>
ReadmeOptions ==
    [retries |-> Some(ReadmeRetries), backoff |-> Some(Array(ReadmeBackoff)),
     fail |-> Undef, redirect |-> Undef]

\* Calls with the README's options, and with every retries alone, under
\* defaults left alone or configured.
ReadmeConfigs ==
    OptionsOver({Undef, Some(1)}, {Undef, Some(Array(<< MaxDelay >>))},
                {Undef}, {Undef})
ReadmeInputs ==
    {Undef, Some(ReadmeOptions)} \cup
    { Some(o) : o \in OptionsOver(RetriesInputs, {Undef},
                                  {Undef, Some("optionsFail")}, {Undef}) }

NextReadme == NextOver(ReadmeConfigs, ReadmeInputs, RetryResults, {"Error"})

SpecReadme == Init /\ [][NextReadme]_vars

\* The round the caller started with the README's options.
ReadmeRound(rd) == rd.via = "call" /\ rd.given = Some(ReadmeOptions)

\* C16 as stated: under retries: 5 with backoff [50, 250, 1000] a round
\* whose every attempt failed has made 5 attempts, after delays of 50, 250,
\* 1000 and 1000 ms; and a round with retries: n >= 1 passed never makes
\* more than n attempts.
C16_ReadmeFiveAttempts ==
    \A c \in Calls : \A i \in 1..Len(Rounds(c)) :
        LET rd == Rounds(c)[i]
        IN  /\ (ReadmeRound(rd) /\ rd.end = "exhausted") =>
                  /\ rd.invoked = ReadmeRetries
                  /\ rd.delays = << 50, 250, 1000, 1000 >>
            /\ (PassedRetries(rd) /\ RetriesPassed(rd) >= 1) =>
                  rd.invoked <= RetriesPassed(rd)

\* C16 amended: under retries: 5 with backoff [50, 250, 1000] a round whose
\* every attempt failed has made 6 attempts (the first and 5 retries), after
\* delays of 50, 250, 1000, 1000 and 1000 ms, the k-th delay preceding the
\* (k + 1)-th attempt; and a round with retries: n >= 1 passed never makes
\* more than n + 1 attempts.
C16_ReadmeSixAttempts ==
    \A c \in Calls : \A i \in 1..Len(Rounds(c)) :
        LET rd == Rounds(c)[i]
        IN  /\ ReadmeRound(rd) =>
                  /\ \A j \in 1..Len(rd.delays) :
                         rd.delays[j] = << 50, 250, 1000, 1000, 1000 >>[j]
                  /\ Len(rd.delays) \in {rd.invoked - 1, rd.invoked}
                  /\ rd.end = "exhausted" =>
                         /\ rd.invoked = ReadmeRetries + 1
                         /\ Len(rd.errors) = ReadmeRetries + 1
                         /\ Len(rd.delays) = ReadmeRetries
            /\ (PassedRetries(rd) /\ RetriesPassed(rd) >= 1) =>
                  rd.invoked <= RetriesPassed(rd) + 1

\* C16 witness: the README's call, every attempt failed, rejected after the
\* sixth.
C16_Witness ==
    \E c \in Calls :
        /\ Len(Rounds(c)) = 1
        /\ ReadmeRound(Rounds(c)[1])
        /\ Rounds(c)[1].end = "exhausted"
        /\ Len(Rounds(c)[1].errors) = 6
        /\ Rounds(c)[1].delays = << 50, 250, 1000, 1000, 1000 >>
        /\ call[c].pc = "rejected"

\* --------------------------------------------------------------------- C17
\* C17: redirect takes precedence over fail. When every attempt of a round
\* whose options carry redirect has failed, no fail handler is invoked for
\* that round's error; the redirect function is invoked with the round's
\* last error, in a round of its own whose options carry no redirect and
\* the same retries, backoff and fail as the failing round's, and which
\* runs with the same retry budget and schedule when configureDefaults has
\* not changed the defaults between the two rounds; the caller's own object
\* keeps the redirect it was passed with.
C17_RedirectBeforeFail ==
    \A c \in Calls : \A i \in 1..Len(Rounds(c)) :
        LET rd == Rounds(c)[i]
        IN  (rd.options.redirect # Undef /\ rd.end = "exhausted") =>
              /\ rd.handler = "none"
              /\ rd.handled = 0
              /\ rd.result = NoResult
              /\ i < Len(Rounds(c))
              /\ LET next == Rounds(c)[i + 1]
                 IN  /\ next.via = "redirect"
                     /\ next.func = "redirect"
                     /\ next.captured = Last(rd.errors)
                     /\ next.invoked >= 1
                     /\ next.options.redirect = Undef
                     /\ next.options.retries = rd.options.retries
                     /\ next.options.backoff = rd.options.backoff
                     /\ next.options.fail = rd.options.fail
                     /\ next.defaults = rd.defaults =>
                            /\ next.retries = rd.retries
                            /\ next.backoff = rd.backoff
              /\ rd.via = "call" =>
                     /\ callerOptions # Undef
                     /\ Get(callerOptions).redirect = Get(callerOriginal).redirect
                     /\ Get(callerOptions).redirect # Undef

\* C17 witness: the caller passed retries 1, a fail handler and redirect;
\* both attempts failed and the redirect function is in flight, called with
\* the second error, while the caller's object still carries redirect.
C17_Witness ==
    \E c \in Calls :
        /\ Len(Rounds(c)) = 2
        /\ Rounds(c)[1].via = "call"
        /\ Rounds(c)[1].options.fail = Some("optionsFail")
        /\ Rounds(c)[1].end = "exhausted"
        /\ Rounds(c)[1].errors = << OpError(1), OpError(2) >>
        /\ Rounds(c)[2].via = "redirect"
        /\ Rounds(c)[2].captured = OpError(2)
        /\ call[c].pc = "attempt"
        /\ call[c].rhits = 1
        /\ Get(callerOptions).redirect = Some("redirect")

\* --------------------------------------------------------------------- C18
\* C18: a redirect function that fails is run as an operation under the
\* policy of the round it redirects: its round is given that round's
\* retries and backoff and so, when configureDefaults has not changed the
\* defaults between the two rounds, has the retry budget and the schedule
\* that round ran with; it is invoked at most retries + 1 times with the
\* delays of the schedule between invocations, each time with the last
\* error of the original operation; when all its retries + 1 invocations
\* have failed, the fail handler of the original options is invoked once,
\* with the redirect function's last error, and its decision settles the
\* call (fail rejects with that error, suppress resolves with undefined,
\* halt leaves the call pending); a handler that throws instead of
\* deciding rejects the call with what it threw.
C18_FailingRedirectUnderPolicy ==
    \A c \in Calls : \A i \in 2..Len(Rounds(c)) :
        LET rd == Rounds(c)[i]
            prev == Rounds(c)[i - 1]
        IN  rd.via = "redirect" =>
              /\ rd.options.retries = prev.options.retries
              /\ rd.options.backoff = prev.options.backoff
              /\ rd.defaults = prev.defaults =>
                     /\ rd.retries = prev.retries
                     /\ rd.backoff = prev.backoff
              /\ rd.captured = Last(prev.errors)
              /\ i = Len(Rounds(c)) => call[c].func = RedirectClosure(Last(prev.errors))
              /\ rd.invoked <= rd.retries + 1
              /\ \A j \in 1..Len(rd.errors) : rd.errors[j].src = "redirect"
              /\ \A j \in 1..Len(rd.delays) :
                     rd.delays[j] = DelayAwaited(rd.backoff, j)
              /\ rd.handled = 1 <=> rd.end = "exhausted"
              /\ rd.end = "exhausted" =>
                     /\ rd.invoked = rd.retries + 1
                     /\ Len(rd.errors) = rd.retries + 1
                     /\ Len(rd.delays) = rd.retries
                     /\ rd.handler = Get(prev.options.fail)
                     /\ rd.handlerArg = Last(rd.errors)
                     /\ rd.result = NoResult =>
                            i = Len(Rounds(c)) /\ call[c].pc = "handler"
                     /\ rd.result = Strategy(fail) =>
                            /\ i = Len(Rounds(c))
                            /\ call[c].pc = "rejected"
                            /\ call[c].error = Last(rd.errors)
                     /\ rd.result = Strategy(suppress) =>
                            /\ i = Len(Rounds(c))
                            /\ call[c].pc = "resolved"
                            /\ call[c].value = Undefined
                     /\ rd.result = Strategy(halt) =>
                            i = Len(Rounds(c)) /\ call[c].pc = "halted"
                     /\ rd.result = Thrown =>
                            /\ i = Len(Rounds(c))
                            /\ call[c].pc = "rejected"
                            /\ call[c].error = HandlerError(call[c].fhits)

\* C18 witness: under retries 1, the caller's handler and redirect, the
\* operation failed twice, the redirect function failed twice with a delay
\* between, the caller's handler was given the redirect function's second
\* error and resolved to fail, and the call rejected with that error.
C18_Witness ==
    \E c \in Calls :
        /\ Len(Rounds(c)) = 2
        /\ Rounds(c)[2].via = "redirect"
        /\ Rounds(c)[2].errors = << RedirectError(1), RedirectError(2) >>
        /\ Len(Rounds(c)[2].delays) = 1
        /\ Rounds(c)[2].captured = OpError(2)
        /\ Rounds(c)[2].handler = "optionsFail"
        /\ Rounds(c)[2].handlerArg = RedirectError(2)
        /\ Rounds(c)[2].result = Strategy(fail)
        /\ call[c].pc = "rejected"
        /\ call[c].error = RedirectError(2)

\* --------------------------------------------------------------------- C19
\* C19: in every round the fail handler is invoked at most once; when it is
\* invoked, all retries + 1 attempts of the round (retries being the budget
\* the round runs with) have been made and have failed, and its argument is
\* the error of the round's last attempt. It is not invoked in a round in
\* which an attempt succeeded, nor in a round that still has attempts left.
C19_HandlerOncePerExhaustedRound ==
    \A c \in Calls : \A i \in 1..Len(Rounds(c)) :
        LET rd == Rounds(c)[i]
        IN  /\ rd.handled <= 1
            /\ rd.handled = 0 <=> rd.handler = "none"
            /\ rd.handled = 1 =>
                  /\ rd.end = "exhausted"
                  /\ rd.invoked = rd.retries + 1
                  /\ Len(rd.errors) = rd.retries + 1
                  /\ rd.handlerArg = Last(rd.errors)
                  /\ i = Len(Rounds(c)) => rd.handlerArg = LastAttemptError(c, rd)
            /\ rd.end \in {"succeeded", "running"} => rd.handled = 0
            /\ Len(rd.errors) <= rd.retries => rd.handled = 0
            /\ (i = Len(Rounds(c)) /\ call[c].inflight.handler = 1) =>
                  rd.handled = 1 /\ rd.result = NoResult

\* C19 witness: a round with retries 1 whose two attempts failed; its
\* handler has been invoked, once, with the second error, and has not yet
\* resolved.
C19_Witness ==
    \E c \in Calls :
        /\ Len(Rounds(c)) = 1
        /\ Rounds(c)[1].retries = 1
        /\ Rounds(c)[1].errors = << OpError(1), OpError(2) >>
        /\ Rounds(c)[1].handled = 1
        /\ Rounds(c)[1].handler = "optionsFail"
        /\ Rounds(c)[1].handlerArg = OpError(2)
        /\ call[c].pc = "handler"

\* --------------------------------------------------------------------- C20
\* The round was entered by recursion: by the retry strategy, by options
\* the handler returned, or by a redirect.
RecursiveRound(rd) == rd.via # "call"

\* C20: every round entered by recursion is independent of the rounds
\* before it. Its attempt counter starts at 0, so it makes its own
\* retries + 1 attempts (retries being the budget the round runs with)
\* before it is exhausted; its schedule starts again at the first element
\* of its backoff, so its k-th delay is the one tryDo awaits k-th under the
\* whole array; and no delay precedes its first attempt.
C20_RecursiveRoundsIndependent ==
    \A c \in Calls : \A i \in 1..Len(Rounds(c)) :
        LET rd == Rounds(c)[i]
            s == call[c]
        IN  RecursiveRound(rd) =>
              /\ rd.invoked >= 1
              /\ rd.invoked <= rd.retries + 1
              /\ rd.end = "exhausted" =>
                     rd.invoked = rd.retries + 1 /\ Len(rd.delays) = rd.retries
              /\ Len(rd.delays) <= Len(rd.errors)
              /\ Len(rd.delays) >= rd.invoked - 1
              /\ \A j \in 1..Len(rd.delays) :
                     rd.delays[j] = DelayAwaited(rd.backoff, j)
              /\ (i = Len(Rounds(c)) /\ s.pc \in {"attempt", "sleep"}) =>
                     /\ s.attempts = Len(rd.errors)
                     /\ s.retries = rd.retries
                     /\ s.backoff = ShiftedBy(rd.backoff, Len(rd.delays))

\* C20 witness: under retries 1 and backoff [MaxDelay, 0] both attempts
\* failed after a delay of MaxDelay and the handler resolved to retry; the
\* second round has again failed twice, after a delay of MaxDelay again.
C20_Witness ==
    \E c \in Calls :
        /\ Len(Rounds(c)) = 2
        /\ Rounds(c)[1].backoff = << MaxDelay, 0 >>
        /\ Rounds(c)[1].delays = << MaxDelay >>
        /\ Rounds(c)[1].result = Strategy(retry)
        /\ Rounds(c)[2].via = "retry"
        /\ Rounds(c)[2].end = "exhausted"
        /\ Rounds(c)[2].invoked = 2
        /\ Rounds(c)[2].delays = << MaxDelay >>
        /\ call[c].hits = 4

\* --------------------------------------------------------------------- C21
\* Calls whose handlers never resolve to halt, with or without retries,
\* backoff, fail and redirect; a handler resolves to retry or to an object
\* while the chain has fewer than MaxRounds rounds.
LiveConfigs == OptionsOver({Undef, Some(1)}, {Undef}, {Undef}, {Undef})
LiveOptions ==
    {Undef} \cup
    { Some(o) : o \in OptionsOver({Undef, Some(1)},
                                  {Undef, Some(Array(<< MaxDelay >>))},
                                  {Undef, Some("optionsFail")},
                                  {Undef, Some("redirect")}) }
LiveResults == HandlerResults \ { Strategy(halt) }

NextLive == NextOver(LiveConfigs, LiveOptions, LiveResults, {"Error"})

\* The invocation in flight of the operation or the redirect function
\* settles, one way or the other.
OpSettles(c) ==
    \/ OpResolves(c)
    \/ OpRejectsRetry(c, "Error")
    \/ OpRejectsExhausted(c, "Error")
    \/ OpRejectsHandlerThrows(c, "Error")

\* The fail handler awaited settles.
HandlerDecides(c) ==
    \/ \E result \in ResultsOf(call[c].handler, LiveResults) : HandlerSettles(c, result)
    \/ HandlerRejects(c)

\* Every invocation settles and every timer fires: the event loop runs each
\* continuation that is ready.
Fairness ==
    \A c \in Solo :
        /\ WF_vars(OpSettles(c))
        /\ WF_vars(Wake(c))
        /\ WF_vars(HandlerDecides(c))

SpecLive == Init /\ [][NextLive]_vars /\ Fairness

Settled(c) == call[c].pc \in {"resolved", "rejected"}

\* A settled call accounts for its last round: it resolved with the value
\* of a successful attempt or, the handler having resolved to suppress, with
\* undefined; or it rejected with an error: the round's last error, the
\* engine's error about it or, the handler having thrown, what the handler
\* threw.
AccountsForFailure(c) ==
    LET s == call[c]
        rd == Last(s.rounds)
    IN  /\ s.pc = "resolved" =>
              \/ /\ rd.end = "succeeded"
                 /\ s.value \in {OpValue, RedirectValue(rd.captured)}
              \/ /\ rd.end = "exhausted"
                 /\ rd.result = Strategy(suppress)
                 /\ s.value = Undefined
        /\ s.pc = "rejected" =>
              /\ rd.end = "exhausted"
              /\ s.error # NoError
              /\ IF rd.result = Thrown
                 THEN s.error = HandlerError(s.fhits)
                 ELSE s.error \in {Last(rd.errors),
                                   UnhandledStrategyError(Last(rd.errors))}

\* C21: when every invocation of the operation, the redirect function and
\* the fail handler settles, every delay elapses, no handler resolves to
\* halt and the handlers resolve to retry or to an object finitely often,
\* every call made settles, resolved or rejected; and a settled call has
\* not dropped a failure: it resolved with a successful attempt's value or,
\* by suppress, with undefined, or it rejected with an error (the failure's
\* own, the engine's, or the one a handler threw).
C21_EveryCallSettles ==
    /\ \A c \in Calls : (call[c].pc # "idle") ~> Settled(c)
    /\ [](\A c \in Calls : call[c].pc # "idle" => AccountsForFailure(c))

\* C21 witness: a call whose chain ran three rounds, each with every
\* attempt failed, and was rejected at the end.
C21_Witness ==
    \E c \in Calls :
        /\ Len(Rounds(c)) = MaxRounds
        /\ \A i \in 1..MaxRounds : Rounds(c)[i].end = "exhausted"
        /\ call[c].pc = "rejected"

\* --------------------------------------------------------------------- C22
\* The caller passes to a second top-level call the options object it has
\* passed before, as that object is now.
CallAgain(c) ==
    /\ call[c].pc = "idle"
    /\ callerOptions # Undef
    /\ call' = [call EXCEPT ![c] =
                  eventually(call[c], OriginalFunction, "call", "caller",
                             callerOptions)]
    /\ callerOptions' = Some(resolveOptions(callerOptions))
    /\ UNCHANGED << defaultRetries, defaultFailHandler, defaultBackoff,
                    callerOriginal >>

\* Two calls that share one options object with a backoff array, under
\* handlers that fail or retry.
SharedConfigs == OptionsOver({Undef, Some(1)}, {Undef}, {Undef}, {Undef})
SharedOptions ==
    { Some(o) : o \in OptionsOver({Undef, Some(1), Some(MaxRetries)},
                                  {Some(Array(<< MaxDelay >>)),
                                   Some(Array(<< MaxDelay, 0 >>))},
                                  {Some("optionsFail")},
                                  {Undef}) }

NextShared ==
    \/ \E opts \in SharedConfigs : configureDefaults(opts)
    \/ \E c \in Calls :
         \/ \E options \in SharedOptions : Call(c, options)
         \/ CallAgain(c)
         \/ OpResolves(c)
         \/ OpRejectsRetry(c, "Error")
         \/ Wake(c)
         \/ OpRejectsExhausted(c, "Error")
         \/ OpRejectsHandlerThrows(c, "Error")
         \/ \E result \in ResultsOf(call[c].handler, RetryResults) :
                HandlerSettles(c, result)
         \/ HandlerRejects(c)

SpecShared == Init /\ [][NextShared]_vars

\* The array of the backoff the caller passed.
SharedBackoff == Get(Get(callerOriginal).backoff).items

\* The retry budget of a round of a call that is passed the object as the
\* caller wrote it, under the defaults in force when the round starts.
AloneRetries(rd) ==
    LET r == Get(resolveOptions(callerOriginal).retries)
    IN  IF r # 0 THEN r ELSE rd.defaults.retries

\* C22: two top-level calls that share one options object and its backoff
\* array do not interfere, whatever the interleaving. Each round of each
\* call runs with the retries and the schedule the object was passed with,
\* makes its own retries + 1 attempts before it is exhausted (its errors
\* are those of its own invocations, in order), and awaits, as its k-th
\* delay, the delay tryDo awaits k-th under the whole shared array, with
\* its own copy shifted once per delay; and the shared array is never
\* modified.
C22_SharedOptionsNoInterference ==
    callerOriginal # Undef =>
      /\ Get(callerOptions).backoff = Get(callerOriginal).backoff
      /\ Get(callerOptions).retries \in {Get(callerOriginal).retries, Some(InitialRetries)}
      /\ \A c \in Calls : \A i \in 1..Len(Rounds(c)) :
           LET rd == Rounds(c)[i]
               s == call[c]
           IN  /\ rd.backoff = SharedBackoff
               /\ rd.options = resolveOptions(callerOriginal)
               /\ rd.retries = AloneRetries(rd)
               /\ rd.invoked <= rd.retries + 1
               /\ rd.end = "exhausted" =>
                     /\ rd.invoked = rd.retries + 1
                     /\ Len(rd.delays) = rd.retries
               /\ \A j \in 1..Len(rd.delays) :
                     rd.delays[j] = DelayAwaited(SharedBackoff, j)
               /\ (i = Len(Rounds(c)) /\ s.pc \in {"attempt", "sleep"}) =>
                     /\ s.attempts = Len(rd.errors)
                     /\ s.backoff = ShiftedBy(SharedBackoff, Len(rd.delays))
           /\ \A j \in 1..Len(s.rounds[1].errors) :
                  s.rounds[1].errors[j] = OpError(j)

\* C22 witness: both calls run under the shared object with retries 2 and
\* backoff [MaxDelay, 0]; the first has awaited both of its delays and its
\* third attempt is in flight, while the second, started meanwhile, is
\* awaiting its first delay.
C22_Witness ==
    /\ callerOriginal # Undef
    /\ Get(callerOriginal).retries = Some(2)
    /\ Get(callerOriginal).backoff = Some(Array(<< MaxDelay, 0 >>))
    /\ Len(Rounds(1)) = 1 /\ Len(Rounds(2)) = 1
    /\ call[1].pc = "attempt"
    /\ Rounds(1)[1].delays = << MaxDelay, 0 >>
    /\ call[2].pc = "sleep"
    /\ Rounds(2)[1].delays = << MaxDelay >>

\* --------------------------------------------------------------------- C23
\* The invocations the rounds of call c that ran the original operation
\* have made of it.
RECURSIVE OriginalInvocations(_, _)
OriginalInvocations(c, n) ==
    IF n = 0 THEN 0
    ELSE OriginalInvocations(c, n - 1)
         + (IF Rounds(c)[n].func = "orig" THEN Rounds(c)[n].invoked ELSE 0)

\* C23: once a chain has taken a redirect, it never invokes the original
\* operation again: every later round runs a redirect function, the
\* operation's invocations are those of the rounds before the redirect, and
\* a round entered by the retry strategy or by handler-returned options
\* without redirect runs the function of the round before it, the redirect
\* closure with the error it captured when the redirect was taken.
C23_RedirectPersists ==
    \A c \in Calls :
        /\ call[c].hits = OriginalInvocations(c, Len(Rounds(c)))
        /\ \A i \in 1..Len(Rounds(c)) :
             LET rd == Rounds(c)[i]
             IN  /\ TookRedirect(rd) =>
                     \A k \in i..Len(Rounds(c)) : Rounds(c)[k].func = "redirect"
                 /\ (i > 1 /\ rd.via \in {"retry", "handlerOptions"}) =>
                     /\ rd.func = Rounds(c)[i - 1].func
                     /\ rd.captured = Rounds(c)[i - 1].captured
                 /\ (rd.func = "redirect" /\ i = Len(Rounds(c))) =>
                     call[c].func = RedirectClosure(rd.captured)
                 /\ (rd.func = "redirect" /\ rd.end = "succeeded") =>
                     call[c].value = RedirectValue(rd.captured)

\* C23 witness: the operation failed, the redirect was taken with its
\* error, the redirect function failed, the handler resolved to retry, and
\* in the third round the redirect function, called with the operation's
\* error again, has resolved; the operation was invoked once.
C23_Witness ==
    \E c \in Calls :
        /\ Len(Rounds(c)) = 3
        /\ Rounds(c)[2].via = "redirect"
        /\ Rounds(c)[2].result = Strategy(retry)
        /\ Rounds(c)[3].via = "retry"
        /\ Rounds(c)[3].func = "redirect"
        /\ Rounds(c)[3].captured = OpError(1)
        /\ Rounds(c)[3].end = "succeeded"
        /\ call[c].hits = 1
        /\ call[c].rhits = 2
        /\ call[c].value = RedirectValue(OpError(1))

====
